---- MODULE Spec2Model ----
(***************************************************************************)
(* Model of src/script.js: the instance lookup page.  doSearch reads the   *)
(* host input, calls getMeta (POST /api/meta, then GET as fallback, both   *)
(* under one AbortSignal.timeout(5000)) and writes the rendered block to   *)
(* the result element.                                                     *)
(*                                                                         *)
(* Text is a sequence of chunks.  A chunk is either one of the five        *)
(* characters escapeHTML replaces, one whitespace character, or a run of   *)
(* characters containing none of these.  Fixed markup of the template      *)
(* literals is a chunk of its own (it is longer than one character, so it  *)
(* is never equal to a chunk of Specials).                                 *)
(***************************************************************************)
EXTENDS Integers, Sequences, FiniteSets, TLC

(* ------------------------------ bounds -------------------------------- *)

\* longest enumerated text, in chunks
MaxLen == 2
\* most entries of a serverRules array
MaxRules == 2
\* most doSearch invocations that pass the empty-host check in one run
MaxQueries == 2

(* --------------------------- JS values -------------------------------- *)

Specials == {"&", "<", ">", "'", "\""}

Undef == [t |-> "undef"]
Null == [t |-> "null"]
Str(s) == [t |-> "str", s |-> s]
Num(n) == [t |-> "num", n |-> n]
Arr(a) == [t |-> "arr", a |-> a]

\* ToBoolean: undefined, null, "" and 0 are falsy; objects (arrays) are truthy
Truthy(v) ==
    CASE v.t = "str" -> Len(v.s) > 0
      [] v.t = "num" -> v.n # 0
      [] v.t = "arr" -> TRUE
      [] OTHER -> FALSE

\* a || b
Or(a, b) == IF Truthy(a) THEN a ELSE b

\* String(v)
ToStr(v) ==
    CASE v.t = "str" -> v.s
      [] v.t = "num" -> <<ToString(v.n)>>
      [] v.t = "null" -> <<"null">>
      [] OTHER -> <<"undefined">>

(* --------------------------- escapeHTML ------------------------------- *)

\* the replacement table of escapeHTML, without the entry for "<"
escapeCharNoLt(c) ==
    CASE c = "&" -> "&amp;"
      [] c = ">" -> "&gt;"
      [] c = "\"" -> "&quot;"
      [] c = "'" -> "&#39;"
      [] OTHER -> c

\* the replacement table of escapeHTML
escapeChar(c) ==
    CASE c = "&" -> "&amp;"
      [] c = "<" -> "&lt;"
      [] c = ">" -> "&gt;"
      [] c = "\"" -> "&quot;"
      [] c = "'" -> "&#39;"
      [] OTHER -> c

\* String(str || "").replace(/[&<>'"]/g, ...)
escapeHTML(v) ==
    LET s == IF Truthy(v) THEN ToStr(v) ELSE <<>>
    IN  [i \in 1..Len(s) |-> escapeChar(s[i])]

(* ----------------------------- trim ----------------------------------- *)

IsSpace(c) == c = " "

RECURSIVE TrimStart(_)
TrimStart(s) ==
    IF Len(s) > 0 /\ IsSpace(s[1]) THEN TrimStart(Tail(s)) ELSE s

RECURSIVE TrimEnd(_)
TrimEnd(s) ==
    IF Len(s) > 0 /\ IsSpace(s[Len(s)]) THEN TrimEnd(SubSeq(s, 1, Len(s) - 1)) ELSE s

\* String.prototype.trim
Trim(s) == TrimEnd(TrimStart(s))

(* ------------------------ metadata documents -------------------------- *)

ScalarFields ==
    {"softwareName", "name", "version", "description", "maintainerName",
     "maintainerEmail", "inquiryUrl", "repositoryUrl", "iconUrl", "bannerUrl",
     "tosUrl", "privacyPolicyUrl", "maxNoteTextLength"}

Fields == ScalarFields \cup {"serverRules"}

\* a JSON object: every property the page reads, undefined when the document omits it
Obj(f) == [t |-> "obj", f |-> f]

\* meta.<name>
Prop(meta, name) == meta.f[name]

EmptyDoc == [f \in Fields |-> Undef]

(* ------------------------- rendering (doSearch) ----------------------- *)

\* the health object of the success path
Health(host, meta) ==
    [host |-> Str(host),
     softwareName |-> Or(Or(Prop(meta, "softwareName"), Prop(meta, "name")), Null),
     version |-> Or(Prop(meta, "version"), Null),
     description |-> Or(Prop(meta, "description"), Null),
     adminName |-> Or(Prop(meta, "maintainerName"), Null),
     adminEmail |-> Or(Prop(meta, "maintainerEmail"), Null),
     contactLink |-> Or(Or(Prop(meta, "inquiryUrl"), Prop(meta, "repositoryUrl")), Null)]

NA == Str(<<"N/A">>)

\* fixed markup of the template literals
DescOpen == "<p><strong>Description:</strong></p><p class=\"description\">"
DescNone == "<p><strong>Description:</strong> N/A</p>"
VersionOpen == "<p><strong>Version:</strong> "
AdminOpen == "<p><strong>Admin:</strong> "
EmailOpen == "<p><strong>Email:</strong> "
ContactOpen == "<p><strong>Contact:</strong> "
AOpen == "<a href=\""
AMid == "\" target=\"_blank\" rel=\"noopener\">"
AClose == "</a>"
IconOpen == "<p><strong>Icon:</strong> <a href=\""
BannerOpen == "<p><strong>Banner:</strong> <a href=\""
TosOpen == "<p><strong>Terms of Service:</strong> <a href=\""
PrivacyOpen == "<p><strong>Privacy Policy:</strong> <a href=\""
LinkClose == "</a></p>"
MaxLengthOpen == "<p><strong>Max Note Length:</strong> "
Rule == "<hr>"
DetailsHead == "<p style=\"font-weight:bold; opacity: 0.8;\">--- Server Details (from /api/meta) ---</p>"
HostOpen == "<p><strong>Host:</strong> "
Online == "<p><strong>Status:</strong> <span style=\"color:#7ee787;\">Online</span></p>"
Offline == "<p><strong>Status:</strong> <span style=\"color:#f88;\">Offline</span></p>"
ErrorOpen == "<p><strong>Error:</strong> "
PClose == "</p>"
RulesOpen == "<p><strong>Server Rules:</strong></p><ul class=\"rules\">"
RulesClose == "</ul>"
ItemOpen == "<li>"
ItemClose == "</li>"

descHtml(health) ==
    IF Truthy(health.description)
    THEN <<DescOpen>> \o escapeHTML(health.description) \o <<PClose>>
    ELSE <<DescNone>>

contactLinkHtml(health) ==
    IF Truthy(health.contactLink)
    THEN <<AOpen>> \o escapeHTML(health.contactLink) \o <<AMid>>
         \o escapeHTML(health.contactLink) \o <<AClose>>
    ELSE <<"N/A">>

\* metaIcon, metaBanner, metaTos, metaPrivacy: a labelled link, or nothing
metaLink(open, v) ==
    IF Truthy(v)
    THEN <<open>> \o escapeHTML(v) \o <<AMid>> \o escapeHTML(v) \o <<LinkClose>>
    ELSE <<>>

metaMaxLength(meta) ==
    LET v == Prop(meta, "maxNoteTextLength")
    IN  IF Truthy(v)
        THEN <<MaxLengthOpen>> \o escapeHTML(v) \o <<PClose>>
        ELSE <<>>

\* one list item of the rules list
ruleItem(rule) == <<ItemOpen>> \o escapeHTML(rule) \o <<ItemClose>>

RECURSIVE ruleItemsReversed(_)
\* the rules appended in reverse order
ruleItemsReversed(rules) ==
    IF Len(rules) = 0 THEN <<>>
    ELSE ruleItemsReversed(Tail(rules)) \o ruleItem(rules[1])

RECURSIVE ruleItems(_)
\* serverRules.forEach(rule => metaRulesHtml += ...)
ruleItems(rules) ==
    IF Len(rules) = 0 THEN <<>>
    ELSE ruleItem(rules[1]) \o ruleItems(Tail(rules))

metaRulesHtml(meta) ==
    LET r == Prop(meta, "serverRules")
    IN  IF Truthy(r) /\ r.t = "arr" /\ Len(r.a) > 0
        THEN <<RulesOpen>> \o ruleItems(r.a) \o <<RulesClose>>
        ELSE <<>>

\* the markup assigned to resultDiv.innerHTML on success
successBlock(host, meta) ==
    LET health == Health(host, meta)
    IN  <<HostOpen>> \o escapeHTML(health.host) \o <<PClose, Online>>
        \o descHtml(health)
        \o <<VersionOpen>> \o escapeHTML(Or(health.version, NA)) \o <<PClose>>
        \o <<AdminOpen>> \o escapeHTML(Or(health.adminName, NA)) \o <<PClose>>
        \o <<EmailOpen>> \o escapeHTML(Or(health.adminEmail, NA)) \o <<PClose>>
        \o <<ContactOpen>> \o contactLinkHtml(health) \o <<PClose>>
        \o <<Rule, DetailsHead>>
        \o metaMaxLength(meta)
        \o metaLink(IconOpen, Prop(meta, "iconUrl"))
        \o metaLink(BannerOpen, Prop(meta, "bannerUrl"))
        \o metaLink(TosOpen, Prop(meta, "tosUrl"))
        \o metaLink(PrivacyOpen, Prop(meta, "privacyPolicyUrl"))
        \o metaRulesHtml(meta)

\* the markup assigned to resultDiv.innerHTML in the catch block
failureBlock(host, message) ==
    <<HostOpen>> \o escapeHTML(Str(host)) \o <<PClose, Offline>>
    \o <<ErrorOpen>> \o escapeHTML(Str(message)) \o <<PClose>>

(* ------------------------------ errors -------------------------------- *)

NoError == [name |-> "none", message |-> <<>>]

\* the reason AbortSignal.timeout aborts with
TimeoutError == [name |-> "TimeoutError", message |-> <<"signal timed out">>]

\* what fetch rejects with when the request cannot be made or completed
NetworkError == [name |-> "TypeError", message |-> <<"Failed to fetch">>]

\* what response.json() rejects with when the body is not JSON
JsonSyntaxError ==
    [name |-> "SyntaxError",
     message |-> <<"Unexpected token ", "'", "<", "'", ", ", "\"", "<", "!DOCTYPE ",
                   "\"", "... is not valid JSON">>]

\* reading a property of null (meta.softwareName with meta === null)
NullPropertyError ==
    [name |-> "TypeError",
     message |-> <<"Cannot read properties of null (reading ", "'", "softwareName", "'", ")">>]

\* new Error(`${method} failed (${status})`)
HttpError(method, status) ==
    [name |-> "Error", message |-> <<method, " failed (", ToString(status), ")">>]

(* ------------------------- getMeta, step by step ---------------------- *)

\* AbortSignal.timeout(5000): milliseconds
Timeout == 5000

\* the model lets time pass in steps of at most half the timeout
TickStep == Timeout \div 2

Min(a, b) == IF a <= b THEN a ELSE b

Methods == {"POST", "GET"}

\* response.ok
Ok(status) == status >= 200 /\ status <= 299

\* the settled state of a promise
Pending == [kind |-> "pending", value |-> Undef, error |-> NoError]
Resolved(v) == [kind |-> "value", value |-> v, error |-> NoError]
Rejected(e) == [kind |-> "error", value |-> Undef, error |-> e]

\* what is known of one attempt: how its fetch ended and the error it ended in
NoAttempt == [kind |-> "none", status |-> 0, error |-> NoError]
Responded(status, e) == [kind |-> "status", status |-> status, error |-> e]
Threw(e) == [kind |-> "reject", status |-> 0, error |-> e]

\* response.json() of a response with this body
jsonOutcome(body) ==
    IF body.kind = "malformed" THEN Rejected(JsonSyntaxError) ELSE Resolved(body.value)

\* a signal created anew for the request, as if each attempt had its own deadline
freshSignal(q) == [deadline |-> q.elapsed + Timeout, aborted |-> FALSE]

\* the signal handed to both fetch calls: the one created when getMeta began
signal(q) == [deadline |-> q.deadline, aborted |-> q.aborted]

\* getMeta that sends the GET together with the POST
startGetMetaBoth(host) ==
    [host |-> host, pc |-> "post", elapsed |-> 0, deadline |-> Timeout, aborted |-> FALSE,
     inflight |-> {"POST", "GET"}, posts |-> 1, gets |-> 1,
     post |-> NoAttempt, get |-> NoAttempt, result |-> Pending, log |-> <<>>]

\* getMeta up to its first await: the signal is created and the POST is sent
startGetMeta(host) ==
    [host |-> host, pc |-> "post", elapsed |-> 0, deadline |-> Timeout, aborted |-> FALSE,
     inflight |-> {"POST"}, posts |-> 1, gets |-> 0,
     post |-> NoAttempt, get |-> NoAttempt, result |-> Pending, log |-> <<>>]

\* getMeta returns or throws; its clock is no longer followed
settle(q, outcome) ==
    [q EXCEPT !.pc = "done", !.inflight = {}, !.result = outcome, !.elapsed = 0]

\* const respGet = await fetch(metaUrl, { signal })
issueGet(q) ==
    [q EXCEPT !.pc = "get", !.inflight = @ \cup {"GET"}, !.gets = @ + 1,
              !.deadline = signal(q).deadline, !.aborted = signal(q).aborted]

\* the catch block of the POST attempt: log, then go on to the GET
catchPost(q, e) ==
    issueGet([q EXCEPT !.log = Append(@, IF e.name = "AbortError"
                                         THEN "POST attempt timed out"
                                         ELSE "POST attempt failed")])

\* the POST fetch rejected
onPostReject(q, e) ==
    catchPost([q EXCEPT !.inflight = @ \ {"POST"}, !.post = Threw(e)], e)

\* the POST fetch resolved with a response
onPostResponse(q, status) ==
    IF Ok(status)
    THEN [q EXCEPT !.pc = "postBody", !.post = Responded(status, NoError)]
    ELSE IF status # 405 /\ status # 404
    THEN catchPost([q EXCEPT !.inflight = @ \ {"POST"},
                             !.post = Responded(status, HttpError("POST", status))],
                   HttpError("POST", status))
    ELSE issueGet([q EXCEPT !.inflight = @ \ {"POST"}, !.post = Responded(status, NoError)])

\* return await respPost.json(): a rejection is caught like any other POST failure
onPostBodyAwaited(q, outcome) ==
    IF outcome.kind = "error"
    THEN catchPost([q EXCEPT !.inflight = @ \ {"POST"}, !.post.error = outcome.error],
                   outcome.error)
    ELSE settle(q, outcome)

\* return respPost.json(): the promise is returned from inside the try without
\* being awaited, so getMeta settles as it settles
onPostBody(q, outcome) ==
    settle([q EXCEPT !.post.error = outcome.error], outcome)

\* a GET rejection reported as the first error of the lookup
onGetRejectFirstError(q, e) ==
    settle([q EXCEPT !.get = Threw(e)],
           Rejected(IF q.post.error # NoError THEN q.post.error ELSE e))

\* the GET fetch rejected
onGetReject(q, e) == settle([q EXCEPT !.get = Threw(e)], Rejected(e))

\* the GET fetch resolved with a response
onGetResponse(q, status) ==
    IF ~Ok(status)
    THEN settle([q EXCEPT !.get = Responded(status, HttpError("GET", status))],
                Rejected(HttpError("GET", status)))
    ELSE [q EXCEPT !.pc = "getBody", !.get = Responded(status, NoError)]

\* return respGet.json()
onGetBody(q, outcome) ==
    settle([q EXCEPT !.get.error = outcome.error], outcome)

(* ------------------------- inputs of the model ------------------------ *)

SeqsUpTo(S, n) == UNION {[1..k -> S] : k \in 0..n}

Alphabet == {"a", "<", "&"}
Script == <<"<", "script", ">">>
Quoted == <<"\"", "a", "'", ">">>

Texts == SeqsUpTo(Alphabet, MaxLen) \cup {Script, Quoted}

\* values a remote document may give a scalar field
ScalarVals == {Str(t) : t \in Texts} \cup {Num(0), Num(3000)}

\* values a remote document may give serverRules
RuleTexts == {t \in Texts : Len(t) <= 1} \cup {Script}
RulesVals ==
    {Undef, Null, Str(<<"a">>)} \cup {Arr(a) : a \in SeqsUpTo({Str(t) : t \in RuleTexts}, MaxRules)}

SomeFields(S, v) == [f \in Fields |-> IF f \in S THEN v ELSE Undef]

\* documents that set one scalar field; documents that set only serverRules;
\* documents that set everything; documents that set a field and its alias
Docs ==
    {SomeFields({f}, v) : f \in ScalarFields, v \in ScalarVals}
    \cup {[EmptyDoc EXCEPT !["serverRules"] = r] : r \in RulesVals}
    \cup {[SomeFields(ScalarFields, Str(t)) EXCEPT !["serverRules"] = Arr(<<Str(t), Str(<<"a">>)>>)] :
            t \in RuleTexts}
    \cup {[SomeFields({"inquiryUrl", "softwareName"}, Str(<<"a">>))
             EXCEPT !["repositoryUrl"] = Str(t), !["name"] = Str(t)] : t \in RuleTexts}

Malformed == [kind |-> "malformed", value |-> Undef]
Json(v) == [kind |-> "json", value |-> v]

\* the bodies the remote host answers with in the runs of Spec
SmallBodies ==
    {Malformed,
     Json(Obj([EmptyDoc EXCEPT !["description"] = Str(Script),
                               !["serverRules"] = Arr(<<Str(<<"a">>), Str(Script)>>)]))}

\* the statuses the remote host answers a POST and a GET with
PostStatuses == {200, 404, 405, 500}
GetStatuses == {200, 404}

\* what the user leaves in the host field: nothing, white space, a padded host
HostInputs == {<<>>, <<" ">>, <<" ">> \o Script \o <<" ">>}

Keys == {"Enter", "a"}

\* resultDiv.textContent while the lookup runs
LoadingText == <<"loading...">>

(* ------------------------------- state -------------------------------- *)

VARIABLES
    hostInput,   \* hostInput.value
    resultDiv,   \* the content of the result element
    queries,     \* the doSearch invocations that called getMeta, in starting order
    remote,      \* the body the remote host sends with a 2xx response, per method
    budget,      \* lookups the user still starts
    writer,      \* the invocation that last wrote resultDiv (0: none yet)
    event        \* whether the last event handled was a run of doSearch

vars == <<hostInput, resultDiv, queries, remote, budget, writer, event>>

Active(q) == q.pc # "done"

InitPage ==
    /\ hostInput = <<>>
    /\ resultDiv = <<>>
    /\ queries = <<>>
    /\ writer = 0
    /\ event = "other"

Init ==
    /\ InitPage
    /\ remote \in [Methods -> SmallBodies]
    /\ budget = MaxQueries

\* one lookup of a host whose document is any of Docs
InitRender ==
    /\ InitPage
    /\ \E b \in {Malformed, Json(Null)} \cup {Json(Obj(d)) : d \in Docs} :
          remote = [m \in Methods |-> b]
    /\ budget = 1

(* ------------------------------ doSearch ------------------------------ *)

\* what doSearch leaves in resultDiv once getMeta has settled
shownBlock(q) ==
    IF q.result.kind = "value"
    THEN IF q.result.value.t = "obj"
         THEN successBlock(q.host, q.result.value)
         ELSE failureBlock(q.host, NullPropertyError.message)
    ELSE failureBlock(q.host, q.result.error.message)

\* doSearch writes its block only while it is the latest invocation
writesIfLatest(i) == i = Len(queries)

\* doSearch writes its block whenever its getMeta settles
writes(i) == TRUE

\* doSearch that shows the loading text before it looks at the host
DoSearchLoadingFirst(trigger) ==
    LET host == Trim(hostInput)
    IN  /\ event' = trigger
        /\ resultDiv' = LoadingText
        /\ IF host = <<>>
           THEN UNCHANGED <<queries, budget, writer>>
           ELSE /\ budget > 0
                /\ budget' = budget - 1
                /\ queries' = Append(queries, startGetMeta(host))
                /\ writer' = Len(queries) + 1
        /\ UNCHANGED <<hostInput, remote>>

\* doSearch that returns while an earlier lookup is pending
DoSearchOneAtATime(trigger) ==
    LET host == Trim(hostInput)
    IN  /\ event' = trigger
        /\ IF host = <<>> \/ \E i \in 1..Len(queries) : Active(queries[i])
           THEN UNCHANGED <<resultDiv, queries, budget, writer>>
           ELSE /\ budget > 0
                /\ budget' = budget - 1
                /\ resultDiv' = LoadingText
                /\ queries' = Append(queries, startGetMeta(host))
                /\ writer' = Len(queries) + 1
        /\ UNCHANGED <<hostInput, remote>>

\* doSearch up to its await
DoSearch(trigger) ==
    LET host == Trim(hostInput)
    IN  /\ event' = trigger
        /\ IF host = <<>>
           THEN UNCHANGED <<resultDiv, queries, budget, writer>>
           ELSE /\ budget > 0
                /\ budget' = budget - 1
                /\ resultDiv' = LoadingText
                /\ queries' = Append(queries, startGetMeta(host))
                /\ writer' = Len(queries) + 1
        /\ UNCHANGED <<hostInput, remote>>

\* one step of invocation i: getMeta moves to q2 and, if that settles it,
\* doSearch resumes and writes its block
Step(i, q2) ==
    /\ queries' = [queries EXCEPT ![i] = q2]
    /\ IF q2.pc = "done" /\ writes(i)
       THEN resultDiv' = shownBlock(q2) /\ writer' = i
       ELSE UNCHANGED <<resultDiv, writer>>
    /\ event' = "other"
    /\ UNCHANGED <<hostInput, remote, budget>>

(* ------------------------------ actions ------------------------------- *)

\* the user edits the host field
TypeHost(v) ==
    /\ budget > 0
    /\ v # hostInput
    /\ hostInput' = v
    /\ event' = "other"
    /\ UNCHANGED <<resultDiv, queries, remote, budget, writer>>

\* searchButton.onclick
Click == DoSearch("search")

\* the keydown listener of the host field
KeyDown(key) ==
    IF key = "Enter"
    THEN DoSearch("search")
    ELSE event' = "other" /\ UNCHANGED <<hostInput, resultDiv, queries, remote, budget, writer>>

PostRespond(i, status) ==
    /\ queries[i].pc = "post" /\ ~queries[i].aborted
    /\ Step(i, onPostResponse(queries[i], status))

PostFail(i) ==
    /\ queries[i].pc = "post" /\ ~queries[i].aborted
    /\ Step(i, onPostReject(queries[i], NetworkError))

PostBody(i) ==
    /\ queries[i].pc = "postBody" /\ ~queries[i].aborted
    /\ Step(i, onPostBody(queries[i], jsonOutcome(remote["POST"])))

GetRespond(i, status) ==
    /\ queries[i].pc = "get" /\ ~queries[i].aborted
    /\ Step(i, onGetResponse(queries[i], status))

GetFail(i) ==
    /\ queries[i].pc = "get" /\ ~queries[i].aborted
    /\ Step(i, onGetReject(queries[i], NetworkError))

GetBody(i) ==
    /\ queries[i].pc = "getBody" /\ ~queries[i].aborted
    /\ Step(i, onGetBody(queries[i], jsonOutcome(remote["GET"])))

\* the timer of the signal fires: the signal aborts and what is pending rejects
TimerFires(i) ==
    LET q == [queries[i] EXCEPT !.aborted = TRUE]
    IN  /\ Active(queries[i]) /\ ~queries[i].aborted
        /\ queries[i].elapsed = queries[i].deadline
        /\ Step(i, CASE q.pc = "post" -> onPostReject(q, TimeoutError)
                     [] q.pc = "postBody" -> onPostBody(q, Rejected(TimeoutError))
                     [] q.pc = "get" -> onGetReject(q, TimeoutError)
                     [] OTHER -> onGetBody(q, Rejected(TimeoutError)))

\* fetch called with a signal that has already aborted rejects at once
GetAborted(i) ==
    /\ queries[i].pc = "get" /\ queries[i].aborted
    /\ Step(i, onGetReject(queries[i], TimeoutError))

\* time passes, at most up to the moment a timer is due
Tick ==
    /\ \E i \in 1..Len(queries) : Active(queries[i])
    /\ \A i \in 1..Len(queries) :
          Active(queries[i]) => ~queries[i].aborted /\ queries[i].elapsed < queries[i].deadline
    /\ queries' = [i \in 1..Len(queries) |->
                      IF Active(queries[i])
                      THEN [queries[i] EXCEPT !.elapsed = Min(@ + TickStep, queries[i].deadline)]
                      ELSE queries[i]]
    /\ event' = "other"
    /\ UNCHANGED <<hostInput, resultDiv, remote, budget, writer>>

Next ==
    \/ \E v \in HostInputs : TypeHost(v)
    \/ Click
    \/ \E key \in Keys : KeyDown(key)
    \/ \E i \in 1..Len(queries) :
          \/ \E status \in PostStatuses : PostRespond(i, status)
          \/ PostFail(i)
          \/ PostBody(i)
          \/ \E status \in GetStatuses : GetRespond(i, status)
          \/ GetFail(i)
          \/ GetBody(i)
          \/ TimerFires(i)
          \/ GetAborted(i)
    \/ Tick

Spec == Init /\ [][Next]_vars

SpecRender == InitRender /\ [][Next]_vars

(* --------------------------- claim helpers ---------------------------- *)

QueryIds == 1..Len(queries)

\* the POST attempt ended without a 2xx response
PostNot2xx(q) ==
    \/ q.post.kind = "reject"
    \/ q.post.kind = "status" /\ ~Ok(q.post.status)

\* the POST attempt was answered 2xx
Post2xx(q) == q.post.kind = "status" /\ Ok(q.post.status)

\* the GET attempt failed: rejected, answered with a non-success status, or
\* answered 2xx with a body that could not be read as JSON
GetFailed(q) ==
    \/ q.get.kind = "reject"
    \/ q.get.kind = "status" /\ ~Ok(q.get.status)
    \/ q.get.kind = "status" /\ Ok(q.get.status) /\ q.get.error # NoError

\* the character an entity stands for
unescapeChunk(c) ==
    CASE c = "&amp;" -> "&"
      [] c = "&lt;" -> "<"
      [] c = "&gt;" -> ">"
      [] c = "&quot;" -> "\""
      [] c = "&#39;" -> "'"
      [] OTHER -> c

Unescape(s) == [k \in 1..Len(s) |-> unescapeChunk(s[k])]

\* s[k+1 .. k+Len(t)] is t written with entities and no raw special character
EscapedAt(s, k, t) ==
    /\ k + Len(t) <= Len(s)
    /\ Unescape(SubSeq(s, k + 1, k + Len(t))) = t
    /\ \A j \in k + 1..k + Len(t) : s[j] \notin Specials

\* text t follows, escaped, some occurrence of the chunk open in s
ShownAfter(s, open, t) ==
    \E k \in 1..Len(s) : s[k] = open /\ EscapedAt(s, k, t)

Count(s, c) == Cardinality({k \in 1..Len(s) : s[k] = c})

Occurs(s, t) == \E k \in 0..Len(s) - Len(t) : SubSeq(s, k + 1, k + Len(t)) = t

\* the invocation whose block resultDiv holds
Shown(i) == i \in QueryIds /\ writer = i /\ queries[i].pc = "done"

(* ------------------------------- claims ------------------------------- *)

C2_GetOnceAfterPost ==
    \A i \in QueryIds :
        LET q == queries[i]
        IN  /\ q.posts = 1 /\ q.gets \in {0, 1}
            /\ Cardinality(q.inflight) <= 1
            /\ PostNot2xx(q) => q.gets = 1
            /\ q.gets = 1 => PostNot2xx(q) /\ "POST" \notin q.inflight
            /\ q.pc = "post" => q.inflight = {"POST"} /\ q.gets = 0

\* C2 witness: the GET is pending after a POST that was answered 405
C2_Witness ==
    \E i \in QueryIds :
        /\ queries[i].post.kind = "status" /\ queries[i].post.status = 405
        /\ queries[i].pc = "get" /\ queries[i].inflight = {"GET"} /\ queries[i].gets = 1

\* C3: when the POST attempt and the GET attempt have both failed, getMeta
\* rejects with the GET attempt's error and doSearch writes the failure block:
\* host, Offline, and the escaped message of the GET attempt's error.
C3_BothFailShowsGetError ==
    [][\A i \in QueryIds :
          LET q == queries'[i]
          IN  Active(queries[i]) /\ ~Active(q) /\ PostNot2xx(q) /\ GetFailed(q) =>
                /\ q.result.kind = "error"
                /\ q.result.error = q.get.error
                /\ q.get.kind = "status" /\ ~Ok(q.get.status) =>
                      q.result.error.message = <<"GET", " failed (", ToString(q.get.status), ")">>
                /\ resultDiv' = <<HostOpen>> \o escapeHTML(Str(q.host)) \o <<PClose, Offline, ErrorOpen>>
                                \o escapeHTML(Str(q.get.error.message)) \o <<PClose>>]_vars

\* C3 witness: the POST was answered 500, the GET was rejected, and the block
\* on display is Offline with the GET's message
C3_Witness ==
    \E i \in QueryIds :
        /\ Shown(i)
        /\ queries[i].post.kind = "status" /\ queries[i].post.status = 500
        /\ queries[i].get = Threw(NetworkError)
        /\ Count(resultDiv, Offline) = 1
        /\ ShownAfter(resultDiv, ErrorOpen, NetworkError.message)
        /\ ~ShownAfter(resultDiv, ErrorOpen, HttpError("POST", 500).message)

\* C4: a run of doSearch with an empty or whitespace-only host field starts no
\* lookup (no request) and leaves the result element as it was.
C4_BlankHostNoEffect ==
    [][event' = "search" /\ Trim(hostInput) = <<>> =>
          /\ queries' = queries
          /\ resultDiv' = resultDiv
          /\ writer' = writer]_vars

\* C4 witness: doSearch has just run on a whitespace-only host while the block
\* of a finished lookup was on display, and the block is still there
C4_Witness ==
    /\ event = "search"
    /\ hostInput = <<" ">>
    /\ Shown(writer)
    /\ resultDiv # LoadingText

\* the failure, if any, of the POST attempt: a rejection, a non-success status,
\* or a 2xx response whose body could not be read as JSON
PostFailed(q) ==
    \/ PostNot2xx(q)
    \/ Post2xx(q) /\ q.post.error # NoError

\* C5: every failure of the POST attempt, a 2xx response with a malformed body
\* included, is followed by the GET attempt, and the error getMeta rejects with
\* is never the POST attempt's.
C5_PostFailureSwallowed ==
    \A i \in QueryIds :
        LET q == queries[i]
        IN  PostFailed(q) =>
              /\ q.gets = 1
              /\ q.pc = "done" /\ q.result.kind = "error" => q.result.error = q.get.error

\* the text the success block shows for each property it prints: the opening
\* markup it follows, and the value
ShownValues(meta) ==
    {<<DescOpen, Prop(meta, "description")>>,
     <<VersionOpen, Prop(meta, "version")>>,
     <<AdminOpen, Prop(meta, "maintainerName")>>,
     <<EmailOpen, Prop(meta, "maintainerEmail")>>,
     <<AOpen, Or(Prop(meta, "inquiryUrl"), Prop(meta, "repositoryUrl"))>>,
     <<IconOpen, Prop(meta, "iconUrl")>>,
     <<BannerOpen, Prop(meta, "bannerUrl")>>,
     <<TosOpen, Prop(meta, "tosUrl")>>,
     <<PrivacyOpen, Prop(meta, "privacyPolicyUrl")>>,
     <<MaxLengthOpen, Prop(meta, "maxNoteTextLength")>>}

\* the entries of serverRules that the success block lists
ListedRules(meta) ==
    LET r == Prop(meta, "serverRules")
    IN  IF r.t = "arr" THEN r.a ELSE <<>>

\* C6: no character of & < > ' " reaches the result element raw, and the host,
\* the error message, every printed property of the document and every rule are
\* there in escaped form (entities that decode back to the value).
C6_OutputEscaped ==
    /\ \A k \in 1..Len(resultDiv) : resultDiv[k] \notin Specials
    /\ \A i \in QueryIds :
          LET q == queries[i]
          IN  Shown(i) =>
                /\ resultDiv[1] = HostOpen
                /\ EscapedAt(resultDiv, 1, q.host)
                /\ q.result.kind = "error" =>
                      ShownAfter(resultDiv, ErrorOpen, q.result.error.message)
                /\ q.result.kind = "value" /\ q.result.value.t = "obj" =>
                      /\ \A p \in ShownValues(q.result.value) :
                            Truthy(p[2]) =>
                              /\ ShownAfter(resultDiv, p[1], ToStr(p[2]))
                              /\ p[1] \in {AOpen, IconOpen, BannerOpen, TosOpen, PrivacyOpen}
                                    => ShownAfter(resultDiv, AMid, ToStr(p[2]))
                      /\ \A j \in 1..Len(ListedRules(q.result.value)) :
                            ShownAfter(resultDiv, ItemOpen, ListedRules(q.result.value)[j].s)

\* C6 witness: the host and the description both contain <script>, and the
\* block on display holds &lt;script&gt; after each opening
C6_Witness ==
    \E i \in QueryIds :
        /\ Shown(i)
        /\ queries[i].host = Script
        /\ queries[i].result.kind = "value" /\ queries[i].result.value.t = "obj"
        /\ Prop(queries[i].result.value, "description") = Str(Script)
        /\ SubSeq(resultDiv, 1, 4) = <<HostOpen, "&lt;", "script", "&gt;">>
        /\ Occurs(resultDiv, <<DescOpen, "&lt;", "script", "&gt;", PClose>>)

RECURSIVE ItemOffset(_, _)
\* where, counted from the opening of the list, item j starts
ItemOffset(a, j) ==
    IF j = 1 THEN 1 ELSE ItemOffset(a, j - 1) + Len(a[j - 1].s) + 2

\* C7: for a document whose serverRules is an array of n > 0 entries the
\* success block holds one rules list of exactly n items, item j being entry j
\* escaped, in the order of the array; otherwise the block holds no rules list.
C7_RulesList ==
    \A i \in QueryIds :
        LET q == queries[i]
            r == IF q.result.kind = "value" /\ q.result.value.t = "obj"
                 THEN ListedRules(q.result.value) ELSE <<>>
        IN  Shown(i) =>
              IF Len(r) > 0
              THEN /\ Count(resultDiv, RulesOpen) = 1
                   /\ Count(resultDiv, RulesClose) = 1
                   /\ Count(resultDiv, ItemOpen) = Len(r)
                   /\ Count(resultDiv, ItemClose) = Len(r)
                   /\ \E p \in 1..Len(resultDiv) :
                         /\ resultDiv[p] = RulesOpen
                         /\ \A j \in 1..Len(r) :
                               LET st == p + ItemOffset(r, j)
                               IN  /\ st + Len(r[j].s) + 1 <= Len(resultDiv)
                                   /\ resultDiv[st] = ItemOpen
                                   /\ EscapedAt(resultDiv, st, r[j].s)
                                   /\ resultDiv[st + Len(r[j].s) + 1] = ItemClose
                         /\ resultDiv[p + ItemOffset(r, Len(r) + 1)] = RulesClose
              ELSE /\ Count(resultDiv, RulesOpen) = 0
                   /\ Count(resultDiv, RulesClose) = 0
                   /\ Count(resultDiv, ItemOpen) = 0

\* C7 witness: a list of two different rules, the first with a character to escape
C7_Witness ==
    \E i \in QueryIds :
        /\ Shown(i)
        /\ queries[i].result.kind = "value" /\ queries[i].result.value.t = "obj"
        /\ Prop(queries[i].result.value, "serverRules") = Arr(<<Str(<<"<">>), Str(<<"a">>)>>)
        /\ Occurs(resultDiv, <<RulesOpen, ItemOpen, "&lt;", ItemClose, ItemOpen, "a", ItemClose, RulesClose>>)

\* C8 as stated: at most one lookup is pending at any time.
C8_OneQueryInFlight ==
    Cardinality({i \in QueryIds : Active(queries[i])}) <= 1

\* C8 amended: each lookup has at most one request in flight, but lookups are
\* not serialized: every run of doSearch on a non-blank host starts a new lookup
\* with its POST at once, whether or not earlier lookups are pending, and
\* leaves those as they are.
C8_OneRequestPerQuery ==
    /\ [](\A i \in QueryIds : Cardinality(queries[i].inflight) <= 1)
    /\ [][event' = "search" /\ Trim(hostInput) # <<>> =>
             /\ Len(queries') = Len(queries) + 1
             /\ queries'[Len(queries')].pc = "post"
             /\ queries'[Len(queries')].inflight = {"POST"}
             /\ queries'[Len(queries')].host = Trim(hostInput)
             /\ \A i \in QueryIds : queries'[i] = queries[i]]_vars

\* C8 witness: a second lookup has sent its POST while the first one's GET is pending
C8_Witness ==
    /\ Len(queries) >= 2
    /\ queries[1].pc = "get" /\ queries[1].inflight = {"GET"}
    /\ queries[2].pc = "post" /\ queries[2].inflight = {"POST"}
    /\ event = "search"

\* the time a pending request of the lookup has left before its signal aborts
Remaining(q) == q.deadline - q.elapsed

C10_NoCancellation ==
    [][\A i \in QueryIds :
          /\ Active(queries[i]) /\ ~Active(queries'[i]) =>
                /\ writer' = i
                /\ Len(resultDiv') >= 1 + Len(queries'[i].host)
                /\ resultDiv'[1] = HostOpen
                /\ EscapedAt(resultDiv', 1, queries'[i].host)
                /\ Count(resultDiv', Online) + Count(resultDiv', Offline) = 1
          /\ Len(queries') > Len(queries) => queries'[i] = queries[i]]_vars

\* C10 witness: both lookups are over and the block on display is the one of
\* the lookup started first, which differs from the block of the later one
C10_Witness ==
    /\ Len(queries) = 2
    /\ ~Active(queries[1]) /\ ~Active(queries[2])
    /\ writer = 1
    /\ resultDiv = shownBlock(queries[1])
    /\ resultDiv # shownBlock(queries[2])

====
